---- MODULE Spec2Model ----
(***************************************************************************)
(* Model of bulk_rename (src/src/bulk_rename/cli.py): filename generation, *)
(* discovery, sorting, plan construction, validation, backup, execution    *)
(* and the entry point main().                                             *)
(*                                                                         *)
(* A filename is a sequence of one-character strings, so that extension    *)
(* extraction, formatting and ordinal comparison are computed and not      *)
(* assumed.  A path is a record [parent, name].  The filesystem is a       *)
(* function whose domain is the set of paths that exist; its value at a    *)
(* path is the identity of the file stored there.                          *)
(***************************************************************************)
EXTENDS Integers, Sequences, FiniteSets, TLC

VARIABLES
    fs,           \* filesystem: existing path |-> file identity
    platform,     \* "posix" or "nt": decides what Path.rename does on an existing target
    api,          \* which call the API-level specifications are in
    in_files,     \* argument of sort_files / generate_rename_plan (API level)
    in_pattern,   \* pattern argument
    in_start,     \* start_index argument
    result,       \* value returned by the last API call
    raised,       \* exception that ended the last call ("none" when it returned)
    rename_plan,  \* argument of validate_rename_plan / execute_rename
    conflict_dict,\* execute_rename: the conflicts found by its validation
    pos,          \* execute_rename / save_backup: loop position
    log,          \* console output, a sequence of records
    renames,      \* history: renames performed, with the state they were applied in
    fs_at_call,   \* history: filesystem when execute_rename was called
    calls,        \* history: completed execute_rename calls
    pc,           \* main(): position
    args,         \* main(): the parsed arguments [path, pattern, extension, start]
    access,       \* main(): state of args.path ("missing", "noread", "nowrite", "rw")
    files,        \* main(): result of find_files
    sorted_files, \* main(): result of sort_files
    plan,         \* main(): result of generate_rename_plan
    conflicts,    \* main(): result of validate_rename_plan
    effective_ops,\* main(): plan entries not in conflict
    confirms,     \* history: prompts issued by confirm_action
    backup,       \* backup file: [state, lines]
    fs_at_start,  \* history: filesystem when main() started
    env_changes   \* history: external modifications so far

vars == <<fs, platform, api, in_files, in_pattern, in_start, result, raised,
          rename_plan, conflict_dict, pos, log, renames, fs_at_call, calls,
          pc, args, access, files, sorted_files, plan, conflicts, effective_ops,
          confirms, backup, fs_at_start, env_changes>>

----------------------------------------------------------------------------
(* Characters and strings *)

Digits == <<"0", "1", "2", "3", "4", "5", "6", "7", "8", "9">>

\* ord(c) for the characters the model uses.
CodePoint(c) ==
    CASE c = "." -> 46
      [] c = "0" -> 48 [] c = "1" -> 49 [] c = "2" -> 50 [] c = "3" -> 51
      [] c = "4" -> 52 [] c = "5" -> 53 [] c = "6" -> 54 [] c = "7" -> 55
      [] c = "8" -> 56 [] c = "9" -> 57
      [] c = "A" -> 65 [] c = "B" -> 66
      [] c = "a" -> 97 [] c = "b" -> 98 [] c = "f" -> 102
      [] c = "t" -> 116 [] c = "u" -> 117

\* Python's str < str: code point by code point, a proper prefix is smaller.
RECURSIVE StrLess(_, _)
StrLess(s, t) ==
    IF t = <<>> THEN FALSE
    ELSE IF s = <<>> THEN TRUE
    ELSE IF CodePoint(Head(s)) # CodePoint(Head(t))
         THEN CodePoint(Head(s)) < CodePoint(Head(t))
    ELSE StrLess(Tail(s), Tail(t))

\* str(n) for n >= 0.
RECURSIVE Str(_)
Str(n) ==
    IF n < 10 THEN <<Digits[n + 1]>>
    ELSE Str(n \div 10) \o <<Digits[(n % 10) + 1]>>

\* Zero fill on the left up to a minimum width (the "0w" of a format spec).
RECURSIVE ZeroPad(_, _)
ZeroPad(s, width) ==
    IF Len(s) >= width THEN s ELSE ZeroPad(<<"0">> \o s, width)

\* pattern.format(index): a pattern is [pre, ph, width, post]; ph says whether
\* it holds a replacement field "{}" / "{:0wd}".
Format(pattern, index) ==
    IF pattern.ph
    THEN pattern.pre \o ZeroPad(Str(index), pattern.width) \o pattern.post
    ELSE pattern.pre \o pattern.post

\* str.rfind("."): the 0-based position of the last ".", -1 if none.
RECURSIVE RFindDot(_)
RFindDot(name) ==
    IF name = <<>> THEN -1
    ELSE IF name[Len(name)] = "." THEN Len(name) - 1
    ELSE RFindDot(SubSeq(name, 1, Len(name) - 1))

\* PurePath.suffix: the last dot and what follows it, unless that dot is the
\* first or the last character of the name.
Suffix(name) ==
    LET i == RFindDot(name)
    IN  IF 0 < i /\ i < Len(name) - 1 THEN SubSeq(name, i + 1, Len(name)) ELSE <<>>

\* s[1:]
DropFirst(s) == IF s = <<>> THEN <<>> ELSE Tail(s)

----------------------------------------------------------------------------
(* Paths *)

P(parent, name) == [parent |-> parent, name |-> name]

\* parent_dir / new_filename
Join(parent, name) == [parent |-> parent, name |-> name]

----------------------------------------------------------------------------
(* generate_new_name *)

\* The result of a call: [ok |-> TRUE, val |-> v] or [ok |-> FALSE, val |-> error].
Ok(v) == [ok |-> TRUE, val |-> v]
Err(e) == [ok |-> FALSE, val |-> e]

\* Lines 29-36.  Every index the program passes is an int (enumerate over an
\* int start), so the TypeError of line 30 is never raised and has no case here.
generate_new_name(pattern, index, extension) ==
    IF index < 0 THEN Err("ValueError")
    ELSE Ok(Format(pattern, index) \o <<".">> \o extension)

----------------------------------------------------------------------------
(* find_files *)

\* fnmatch of name against "*.<extension>": the name ends with "." + extension.
GlobMatch(name, extension) ==
    LET tail == <<".">> \o extension
    IN  /\ Len(name) >= Len(tail)
        /\ SubSeq(name, Len(name) - Len(tail) + 1, Len(name)) = tail

\* The set directory.glob("*.ext") yields; the order of the list is the OS's.
FoundSet(filesystem, directory, extension) ==
    {p \in DOMAIN filesystem : p.parent = directory /\ GlobMatch(p.name, extension)}

\* All the orders a set can be listed in.
Orders(S) ==
    {q \in [1..Cardinality(S) -> S] : \A i, j \in 1..Cardinality(S) : q[i] = q[j] => i = j}

----------------------------------------------------------------------------
(* sort_files *)

\* Mutant of InsertByName: x goes before the elements of equal key.
RECURSIVE InsertByName_Unstable(_, _)
InsertByName_Unstable(s, x) ==
    IF s = <<>> THEN <<x>>
    ELSE IF ~StrLess(Head(s).name, x.name) THEN <<x>> \o s
    ELSE <<Head(s)>> \o InsertByName_Unstable(Tail(s), x)

\* Insert x after every element whose key is not greater (stable).
RECURSIVE InsertByName(_, _)
InsertByName(s, x) ==
    IF s = <<>> THEN <<x>>
    ELSE IF StrLess(x.name, Head(s).name) THEN <<x>> \o s
    ELSE <<Head(s)>> \o InsertByName(Tail(s), x)

RECURSIVE SortFrom(_, _)
SortFrom(acc, rest) ==
    IF rest = <<>> THEN acc ELSE SortFrom(InsertByName(acc, Head(rest)), Tail(rest))

\* Mutant of sort_files: the list is returned as it came.
sort_files_Unsorted(fl) == fl

sort_files(fl) == SortFrom(<<>>, fl)

----------------------------------------------------------------------------
(* generate_rename_plan *)

\* The loop of generate_rename_plan from position k (1-based) on, index = start_index + k - 1.
RECURSIVE PlanFrom(_, _, _, _, _)
PlanFrom(fl, pattern, start_index, k, acc) ==
    IF k > Len(fl) THEN Ok(acc)
    ELSE LET old_path == fl[k]
             extension == DropFirst(Suffix(old_path.name))
             new_filename == generate_new_name(pattern, start_index + k - 1, extension)
         IN  IF ~new_filename.ok THEN new_filename
             ELSE PlanFrom(fl, pattern, start_index, k + 1,
                           Append(acc, <<old_path, Join(old_path.parent, new_filename.val)>>))

\* Mutant of generate_rename_plan: numbering starts one too high.
generate_rename_plan_OffByOne(fl, pattern, start_index) ==
    PlanFrom(fl, pattern, start_index + 1, 1, <<>>)

\* Mutant of generate_rename_plan: the ValueError is caught and an empty plan returned.
generate_rename_plan_Swallow(fl, pattern, start_index) ==
    LET r == PlanFrom(fl, pattern, start_index, 1, <<>>)
    IN  IF r.ok THEN r ELSE Ok(<<>>)

generate_rename_plan(fl, pattern, start_index) == PlanFrom(fl, pattern, start_index, 1, <<>>)

----------------------------------------------------------------------------
(* validate_rename_plan *)

SOURCE_MISSING == "Source file is not found"
TARGET_EXISTS == "Target file already exists"

\* Path.exists()
Exists(filesystem, path) == path \in DOMAIN filesystem

\* Mutant of EntryConflicts: "if" in place of "elif", so a missing source does
\* not stop the target check.
EntryConflicts_NoElif(filesystem, old_path, new_path) ==
    (IF ~Exists(filesystem, old_path)
     THEN <<(<<old_path, new_path, SOURCE_MISSING>>)>> ELSE <<>>)
    \o (IF Exists(filesystem, new_path)
        THEN <<(<<old_path, new_path, TARGET_EXISTS>>)>> ELSE <<>>)

\* The conflict validate_rename_plan appends for one entry: a sequence of 0 or 1 tuples.
EntryConflicts(filesystem, old_path, new_path) ==
    IF ~Exists(filesystem, old_path) THEN <<(<<old_path, new_path, SOURCE_MISSING>>)>>
    ELSE IF Exists(filesystem, new_path) THEN <<(<<old_path, new_path, TARGET_EXISTS>>)>>
    ELSE <<>>

RECURSIVE ValidateFrom(_, _, _)
ValidateFrom(filesystem, pl, k) ==
    IF k > Len(pl) THEN <<>>
    ELSE EntryConflicts(filesystem, pl[k][1], pl[k][2]) \o ValidateFrom(filesystem, pl, k + 1)

validate_rename_plan(filesystem, pl) == ValidateFrom(filesystem, pl, 1)

\* {(old, new): error for old, new, error in conflicts}: a later tuple of the
\* same pair replaces an earlier one.
ConflictDict(cs) ==
    [pair \in {<<cs[i][1], cs[i][2]>> : i \in DOMAIN cs} |->
        LET last == CHOOSE i \in DOMAIN cs :
                        /\ <<cs[i][1], cs[i][2]>> = pair
                        /\ \A j \in DOMAIN cs : <<cs[j][1], cs[j][2]>> = pair => j <= i
        IN  cs[last][3]]

----------------------------------------------------------------------------
(* Path.rename *)

\* old_path.rename(new_path) on the given filesystem: the new filesystem, or
\* the OSError it raises.  On POSIX an existing target file is replaced
\* silently; on Windows FileExistsError is raised.
Rename(filesystem, plat, old_path, new_path) ==
    IF ~Exists(filesystem, old_path) THEN Err("FileNotFoundError")
    ELSE IF old_path = new_path THEN Ok(filesystem)
    ELSE IF Exists(filesystem, new_path) /\ plat = "nt" THEN Err("FileExistsError")
    ELSE Ok([q \in (DOMAIN filesystem \ {old_path}) \cup {new_path} |->
                IF q = new_path THEN filesystem[old_path] ELSE filesystem[q]])

----------------------------------------------------------------------------
(* Bounds *)

MaxPlan == 2      \* longest plan handed to validate_rename_plan / execute_rename directly
MaxCalls == 2     \* execute_rename calls in a row on the same plan
MaxFiles == 3     \* longest list handed to sort_files / generate_rename_plan directly
MaxStart == 2     \* largest start index
MaxNeg == 2       \* most negative start index is -MaxNeg
MaxEnv == 1       \* external modifications of the directory during one run of main()

----------------------------------------------------------------------------
(* execute_rename, step by step.  The same steps serve a direct call        *)
(* (pc = "api") and the call main() makes (pc = "execute").                 *)

NoDict == ConflictDict(<<>>)

Skipped(old_path, new_path, error_msg) ==
    [kind |-> "skipped", old |-> old_path, new |-> new_path, msg |-> error_msg]

main_vars == <<args, access, files, sorted_files, plan, conflicts, effective_ops,
               confirms, backup, fs_at_start, env_changes>>

pure_vars == <<in_files, in_pattern, in_start>>

\* Mutant of ExecCall: no validation at the call, the conflicts main() found
\* before the prompt are used.
ExecCall_NoRevalidate ==
    /\ api \in {"idle", "validated"}
    /\ \/ pc = "api" /\ calls < MaxCalls
       \/ pc = "execute" /\ calls = 0
    /\ conflict_dict' = ConflictDict(conflicts)
    /\ pos' = 1
    /\ api' = "exec"
    /\ fs_at_call' = fs
    /\ UNCHANGED <<fs, platform, result, raised, rename_plan, log, renames, calls, pc>>
    /\ UNCHANGED <<main_vars, pure_vars>>

\* Lines 211-213: validate, build the lookup, enter the loop.
ExecCall ==
    /\ api \in {"idle", "validated"}
    /\ \/ pc = "api" /\ calls < MaxCalls
       \/ pc = "execute" /\ calls = 0
    /\ conflict_dict' = ConflictDict(validate_rename_plan(fs, rename_plan))
    /\ pos' = 1
    /\ api' = "exec"
    /\ fs_at_call' = fs
    /\ UNCHANGED <<fs, platform, result, raised, rename_plan, log, renames, calls, pc>>
    /\ UNCHANGED <<main_vars, pure_vars>>

\* Lines 215-220, one iteration.
ExecStep ==
    /\ api = "exec"
    /\ pos <= Len(rename_plan)
    /\ LET old_path == rename_plan[pos][1]
           new_path == rename_plan[pos][2]
       IN  IF <<old_path, new_path>> \in DOMAIN conflict_dict
           THEN /\ log' = Append(log, Skipped(old_path, new_path,
                                              conflict_dict[<<old_path, new_path>>]))
                /\ pos' = pos + 1
                /\ UNCHANGED <<fs, renames, raised, api, pc>>
           ELSE LET r == Rename(fs, platform, old_path, new_path)
                IN  IF r.ok
                    THEN /\ fs' = r.val
                         /\ renames' = Append(renames,
                                [call |-> calls + 1, old |-> old_path, new |-> new_path,
                                 onto |-> old_path # new_path /\ Exists(fs, new_path)])
                         /\ pos' = pos + 1
                         /\ UNCHANGED <<log, raised, api, pc>>
                    ELSE /\ raised' = r.val
                         /\ api' = "raised"
                         /\ pc' = IF pc = "execute" THEN "crashed" ELSE pc
                         /\ UNCHANGED <<fs, renames, log, pos>>
    /\ UNCHANGED <<platform, result, rename_plan, conflict_dict, fs_at_call, calls>>
    /\ UNCHANGED <<main_vars, pure_vars>>

\* The loop is over: execute_rename returns.
ExecReturn ==
    /\ api = "exec"
    /\ pos > Len(rename_plan)
    /\ api' = "idle"
    /\ calls' = calls + 1
    /\ pc' = IF pc = "execute" THEN "done" ELSE pc
    /\ UNCHANGED <<fs, platform, result, raised, rename_plan, conflict_dict, pos, log,
                   renames, fs_at_call>>
    /\ UNCHANGED <<main_vars, pure_vars>>

\* A direct call of validate_rename_plan(rename_plan).
ValidateCall ==
    /\ pc = "api"
    /\ api = "idle"
    /\ result' = validate_rename_plan(fs, rename_plan)
    /\ api' = "validated"
    /\ UNCHANGED <<fs, platform, raised, rename_plan, conflict_dict, pos, log, renames,
                   fs_at_call, calls, pc>>
    /\ UNCHANGED <<main_vars, pure_vars>>

----------------------------------------------------------------------------
(* Specification SpecExec: validate_rename_plan and execute_rename called  *)
(* on every plan over three paths and every filesystem over them, with no  *)
(* external modification.                                                  *)

ExecPaths == {P("d", <<"a">>), P("d", <<"b">>), P("d", <<"t">>)}

\* A filesystem holding exactly the paths of S, each file named by where it started.
FsOf(S) == [p \in S |-> p]

Plans(paths, n) == UNION {[1..k -> paths \X paths] : k \in 0..n}

NoBackup == [state |-> "none", lines |-> <<>>, content |-> <<>>]

NoPattern == [pre |-> <<>>, ph |-> FALSE, width |-> 0, post |-> <<>>]

NoArgs == [path |-> "d", pattern |-> NoPattern, extension |-> <<>>, start |-> 0]

MainIdle ==
    /\ args = NoArgs
    /\ access = "rw"
    /\ files = <<>>
    /\ sorted_files = <<>>
    /\ plan = <<>>
    /\ conflicts = <<>>
    /\ effective_ops = <<>>
    /\ confirms = 0
    /\ backup = NoBackup
    /\ fs_at_start = FsOf({})
    /\ env_changes = 0

PureIdle ==
    /\ in_files = <<>>
    /\ in_pattern = NoPattern
    /\ in_start = 0

ExecIdle ==
    /\ conflict_dict = NoDict
    /\ pos = 1
    /\ log = <<>>
    /\ renames = <<>>
    /\ fs_at_call = FsOf({})
    /\ calls = 0
    /\ result = <<>>
    /\ raised = "none"
    /\ api = "idle"

InitExec ==
    /\ pc = "api"
    /\ platform \in {"posix", "nt"}
    /\ fs \in {FsOf(S) : S \in SUBSET ExecPaths}
    /\ rename_plan \in Plans(ExecPaths, MaxPlan)
    /\ ExecIdle
    /\ PureIdle
    /\ MainIdle

NextExec == ValidateCall \/ ExecCall \/ ExecStep \/ ExecReturn

SpecExec == InitExec /\ [][NextExec]_vars

----------------------------------------------------------------------------
(* Claims about validate_rename_plan and execute_rename (SpecExec) *)

\* execute_rename has returned from its first direct call and nothing has run since.
FirstCallReturned == pc = "api" /\ calls = 1 /\ api \in {"idle", "validated"}

Reported(i) == <<rename_plan[i][1], rename_plan[i][2]>> \in DOMAIN conflict_dict

\* The file that was at path p when execute_rename was called is still there.
Untouched(p) == Exists(fs_at_call, p) => (Exists(fs, p) /\ fs[p] = fs_at_call[p])

\* C1: after execute(plan) returns, every entry with no reported conflict has
\* been renamed (source gone, destination present) and every entry reported as
\* a conflict still has its source and its pre-existing destination in place,
\* for every plan, chained entries included.
C1_ExecuteRenamesOrLeaves ==
    FirstCallReturned =>
        \A i \in DOMAIN rename_plan :
            IF Reported(i)
            THEN Untouched(rename_plan[i][1]) /\ Untouched(rename_plan[i][2])
            ELSE ~Exists(fs, rename_plan[i][1]) /\ Exists(fs, rename_plan[i][2])

\* The plan positions validate must report, and the reason for each, stated
\* from the filesystem alone.
MustReport(filesystem, pl) ==
    {i \in DOMAIN pl : ~Exists(filesystem, pl[i][1]) \/ Exists(filesystem, pl[i][2])}

ReasonFor(filesystem, pl, i) ==
    IF ~Exists(filesystem, pl[i][1]) THEN SOURCE_MISSING ELSE TARGET_EXISTS

\* The k-th smallest element of a set of numbers.
Kth(S, k) == CHOOSE i \in S : Cardinality({j \in S : j < i}) = k - 1

\* C2: validate(plan) returns, in plan order, exactly one conflict for each
\* entry whose source is missing (SOURCE_MISSING, whatever its destination) or
\* whose source and destination both exist (TARGET_EXISTS), none for the other
\* entries, and leaves the filesystem unchanged.
C2_ValidateOnePerEntry ==
    /\ [](api = "validated" =>
            LET B == MustReport(fs, rename_plan)
            IN  /\ Len(result) = Cardinality(B)
                /\ \A k \in 1..Len(result) :
                      LET i == Kth(B, k)
                      IN  result[k] = <<rename_plan[i][1], rename_plan[i][2],
                                        ReasonFor(fs, rename_plan, i)>>)
    /\ [][api' = "validated" => fs' = fs]_vars

\* C2 witness: validate returned two conflicts in plan order, the first for
\* a missing source whose destination exists, the second for a source and a
\* destination that both exist.
C2_Witness ==
    /\ api = "validated"
    /\ Len(rename_plan) = 2
    /\ Len(result) = 2
    /\ ~Exists(fs, rename_plan[1][1]) /\ Exists(fs, rename_plan[1][2])
    /\ result[1][3] = SOURCE_MISSING
    /\ Exists(fs, rename_plan[2][1]) /\ Exists(fs, rename_plan[2][2])
    /\ result[2][3] = TARGET_EXISTS

\* C6: a second execute(plan) right after a first one that completed renames
\* nothing, skips every entry and leaves the filesystem as the first call
\* left it.
C6_ExecuteIdempotent ==
    (pc = "api" /\ calls = 2 /\ api \in {"idle", "validated"}) =>
        /\ fs = fs_at_call
        /\ \A k \in DOMAIN renames : renames[k].call # 2
        /\ \A i \in DOMAIN rename_plan : Reported(i)

\* The files (identities) a filesystem holds.
FilesOf(filesystem) == {filesystem[p] : p \in DOMAIN filesystem}

\* C14: execute never destroys a file: no rename is applied onto a path that
\* holds a file at the moment of the rename, and when execute has returned
\* the filesystem holds as many files as when it was called, and the same
\* ones, for every plan (shared destinations and chains included) and every
\* initial filesystem.
C14_ExecuteNeverDestroys ==
    /\ \A k \in DOMAIN renames : ~renames[k].onto
    /\ FirstCallReturned =>
          /\ Cardinality(DOMAIN fs) = Cardinality(DOMAIN fs_at_call)
          /\ FilesOf(fs) = FilesOf(fs_at_call)

----------------------------------------------------------------------------
(* Specification SpecPure: sort_files and generate_rename_plan called on   *)
(* every list of up to MaxFiles paths.                                     *)

exec_vars == <<fs, platform, rename_plan, conflict_dict, pos, log, renames,
               fs_at_call, calls, pc>>

SortCall ==
    /\ pc = "pure"
    /\ api = "idle"
    /\ result' = sort_files(in_files)
    /\ api' = "sorted"
    /\ UNCHANGED <<raised, exec_vars, main_vars, pure_vars>>

\* sort_files applied to its own result.
SortAgain ==
    /\ pc = "pure"
    /\ api = "sorted"
    /\ result' = sort_files(result)
    /\ sorted_files' = result
    /\ api' = "resorted"
    /\ UNCHANGED <<raised, exec_vars, pure_vars, args, access, files, plan, conflicts,
                   effective_ops, confirms, backup, fs_at_start, env_changes>>

PlanCall ==
    /\ pc = "pure"
    /\ api = "idle"
    /\ LET r == generate_rename_plan(in_files, in_pattern, in_start)
       IN  IF r.ok
           THEN result' = r.val /\ api' = "planned" /\ UNCHANGED raised
           ELSE raised' = r.val /\ api' = "plan_raised" /\ UNCHANGED result
    /\ UNCHANGED <<exec_vars, main_vars, pure_vars>>

\* Two files of one name in two directories, an uppercase name, a dot file,
\* a name without extension and a name with two dots.
PurePaths ==
    {P("d", <<"a", ".", "t">>), P("e", <<"a", ".", "t">>), P("d", <<"B", ".", "t">>),
     P("e", <<".", "t">>), P("d", <<"b">>), P("e", <<"a", ".", "b", ".", "t">>)}

\* "{}", "f{:02d}" and "f" (no replacement field).
Patterns ==
    {[pre |-> <<>>, ph |-> TRUE, width |-> 0, post |-> <<>>],
     [pre |-> <<"f">>, ph |-> TRUE, width |-> 2, post |-> <<>>],
     [pre |-> <<"f">>, ph |-> FALSE, width |-> 0, post |-> <<>>]}

Lists(paths, n) == UNION {[1..k -> paths] : k \in 0..n}

InitPure ==
    /\ pc = "pure"
    /\ platform = "posix"
    /\ fs = FsOf({})
    /\ rename_plan = <<>>
    /\ in_files \in Lists(PurePaths, MaxFiles)
    /\ in_pattern \in Patterns
    /\ in_start \in (0 - MaxNeg)..MaxStart
    /\ ExecIdle
    /\ MainIdle

NextPure == SortCall \/ SortAgain \/ PlanCall

SpecPure == InitPure /\ [][NextPure]_vars

----------------------------------------------------------------------------
(* Claims about sort_files and generate_rename_plan (SpecPure) *)

\* s <= t in ordinal order, stated by the first position where they differ.
OrdinalLeq(s, t) ==
    \/ s = t
    \/ \E k \in 1..Len(t) :
          /\ k - 1 <= Len(s)
          /\ SubSeq(s, 1, k - 1) = SubSeq(t, 1, k - 1)
          /\ \/ Len(s) = k - 1
             \/ Len(s) >= k /\ CodePoint(s[k]) < CodePoint(t[k])

Bijections(n) == {f \in [1..n -> 1..n] : \A i, j \in 1..n : f[i] = f[j] => i = j}

\* out is a stable rearrangement of inp, in non-decreasing ordinal order of the names.
StableSorted(inp, out) ==
    /\ Len(out) = Len(inp)
    /\ \A i \in 1..Len(out) - 1 : OrdinalLeq(out[i].name, out[i + 1].name)
    /\ \E f \in Bijections(Len(inp)) :
          /\ \A i \in 1..Len(out) : out[i] = inp[f[i]]
          /\ \A i, j \in 1..Len(out) :
                (i < j /\ out[i].name = out[j].name) => f[i] < f[j]

\* C9: sort(files) is a permutation of its input in non-decreasing ordinal
\* (code point) order of the filenames, uppercase before lowercase, the
\* directory playing no part, equal filenames keeping their input order; and
\* sorting the result again changes nothing.
C9_SortStableOrdinal ==
    /\ api = "sorted" => StableSorted(in_files, result)
    /\ api = "resorted" => result = sorted_files /\ StableSorted(in_files, result)

\* C9 witness: a sorted list where an uppercase name precedes a lowercase one
\* and two files of one name stay in input order against their directories'
\* order, sorted a second time.
C9_Witness ==
    /\ api = "resorted"
    /\ in_files = <<P("e", <<"a", ".", "t">>), P("d", <<"a", ".", "t">>), P("d", <<"B", ".", "t">>)>>
    /\ result = <<P("d", <<"B", ".", "t">>), P("e", <<"a", ".", "t">>), P("d", <<"a", ".", "t">>)>>

\* The extension of a name stated by its shape: name = stem.ext with a
\* non-empty stem and a non-empty ext free of dots; empty otherwise.
OwnExtension(name) ==
    LET cuts == {k \in 2..Len(name) - 1 :
                    /\ name[k] = "."
                    /\ \A j \in k + 1..Len(name) : name[j] # "."}
    IN  IF cuts = {} THEN <<>>
        ELSE LET k == CHOOSE c \in cuts : TRUE IN SubSeq(name, k + 1, Len(name))

C10_NegativeStartFails ==
    (in_start < 0 /\ api \in {"planned", "plan_raised"}) =>
        (api = "plan_raised" /\ raised = "ValueError")

\* C10 as amended: with a negative startIndex buildPlan fails with InvalidIndex
\* and returns no plan for every non-empty input file sequence; for the empty
\* sequence it returns the empty plan.
C10_NegativeStartFailsNonEmpty ==
    (in_start < 0 /\ api \in {"planned", "plan_raised"}) =>
        IF in_files # <<>>
        THEN api = "plan_raised" /\ raised = "ValueError" /\ result = <<>>
        ELSE api = "planned" /\ result = <<>>

\* C10 witness: a call with a negative start index on a non-empty list has raised.
C10_Witness ==
    /\ api = "plan_raised"
    /\ in_start < 0
    /\ Len(in_files) = 2

----------------------------------------------------------------------------
(* show_preview, confirm_action, save_backup *)

Line(kind, old_path, new_path, msg) ==
    [kind |-> kind, old |-> old_path, new |-> new_path, msg |-> msg]

NoPath == P("", <<>>)

\* Lines 144-154: the lines show_preview prints for a plan.
PreviewLines(filesystem, pl) ==
    LET dict == ConflictDict(validate_rename_plan(filesystem, pl))
    IN  [i \in DOMAIN pl |->
            IF <<pl[i][1], pl[i][2]>> \in DOMAIN dict
            THEN Line("problem", pl[i][1], pl[i][2], dict[<<pl[i][1], pl[i][2]>>])
            ELSE Line("ok", pl[i][1], pl[i][2], "")]

\* str.lower() on the characters a reply is made of.
LowerChar(c) ==
    CASE c = "Y" -> "y" [] c = "E" -> "e" [] c = "S" -> "s" [] c = "N" -> "n"
      [] OTHER -> c

Lower(s) == [i \in DOMAIN s |-> LowerChar(s[i])]

\* str.strip(): leading and trailing blanks removed.
RECURSIVE LStrip(_)
LStrip(s) == IF s # <<>> /\ Head(s) = " " THEN LStrip(Tail(s)) ELSE s

RECURSIVE RStrip(_)
RStrip(s) ==
    IF s # <<>> /\ s[Len(s)] = " " THEN RStrip(SubSeq(s, 1, Len(s) - 1)) ELSE s

Strip(s) == RStrip(LStrip(s))

\* Line 168: what confirm_action returns for a reply.
Affirmative(user_input) ==
    Strip(Lower(user_input)) \in {<<"y">>, <<"y", "e", "s">>}

\* Replies the user may type.
Replies ==
    {<<"y">>, <<"Y">>, <<"y", "e", "s">>, <<" ", "Y", "e", "s", " ">>,
     <<"n">>, <<"N", "o">>, <<"y", "e">>, <<>>}

\* str(path)
PathStr(path) == <<path.parent, "/">> \o path.name

\* Mutant of BackupLine: the newline is left out.
BackupLine_NoNewline(old_path, new_path) ==
    PathStr(old_path) \o <<" ", "-", ">", " ">> \o PathStr(new_path)

\* Line 192: the text one backup.write call writes.
BackupLine(old_path, new_path) ==
    PathStr(old_path) \o <<" ", "-", ">", " ">> \o PathStr(new_path) \o <<"\n">>

\* Lines 186-188.  The timestamped name is taken to be one that no file of
\* the directory and no generated destination bears.
BackupPath(backup_dir) == P(backup_dir, <<"b", "a", "c", "k", "u", "p">>)

----------------------------------------------------------------------------
(* main(), step by step *)

api_vars == <<api, in_files, in_pattern, in_start, result>>

\* Lines 295-300.
Start ==
    /\ pc = "start"
    /\ IF access = "missing"
       THEN /\ pc' = "exit_nopath"
            /\ log' = Append(log, Line("error", NoPath, NoPath, "Path doesn't exist"))
       ELSE IF access = "noread"
       THEN /\ pc' = "exit_noread"
            /\ log' = Append(log, Line("error", NoPath, NoPath, "No permission to read"))
       ELSE /\ pc' = "find"
            /\ UNCHANGED log
    /\ UNCHANGED <<fs, platform, raised, rename_plan, conflict_dict, pos, renames,
                   fs_at_call, calls, api_vars, main_vars>>

\* Lines 302-306: the listing comes in any order.
Find ==
    /\ pc = "find"
    /\ \E q \in Orders(FoundSet(fs, args.path, args.extension)) :
          /\ files' = q
          /\ IF q = <<>>
             THEN /\ pc' = "exit_nofiles"
                  /\ log' = Append(log, Line("error", NoPath, NoPath, "No files found"))
             ELSE /\ pc' = "sort"
                  /\ UNCHANGED log
    /\ UNCHANGED <<fs, platform, raised, rename_plan, conflict_dict, pos, renames,
                   fs_at_call, calls, api_vars, args, access, sorted_files, plan,
                   conflicts, effective_ops, confirms, backup, fs_at_start, env_changes>>

\* Line 308.
Sort ==
    /\ pc = "sort"
    /\ sorted_files' = sort_files(files)
    /\ pc' = "plan"
    /\ UNCHANGED <<fs, platform, raised, rename_plan, conflict_dict, pos, log, renames,
                   fs_at_call, calls, api_vars, args, access, files, plan,
                   conflicts, effective_ops, confirms, backup, fs_at_start, env_changes>>

\* Line 310: a ValueError is not caught, main() ends with it.
Plan ==
    /\ pc = "plan"
    /\ LET r == generate_rename_plan(sorted_files, args.pattern, args.start)
       IN  IF r.ok
           THEN plan' = r.val /\ pc' = "validate" /\ UNCHANGED raised
           ELSE raised' = r.val /\ pc' = "crashed" /\ UNCHANGED plan
    /\ UNCHANGED <<fs, platform, rename_plan, conflict_dict, pos, log, renames,
                   fs_at_call, calls, api_vars, args, access, files, sorted_files,
                   conflicts, effective_ops, confirms, backup, fs_at_start, env_changes>>

\* Line 312.
Validate ==
    /\ pc = "validate"
    /\ conflicts' = validate_rename_plan(fs, plan)
    /\ pc' = "preview"
    /\ UNCHANGED <<fs, platform, raised, rename_plan, conflict_dict, pos, log, renames,
                   fs_at_call, calls, api_vars, args, access, files, sorted_files, plan,
                   effective_ops, confirms, backup, fs_at_start, env_changes>>

\* Line 314.
Preview ==
    /\ pc = "preview"
    /\ log' = log \o PreviewLines(fs, plan)
    /\ pc' = "confirm"
    /\ UNCHANGED <<fs, platform, raised, rename_plan, conflict_dict, pos, renames,
                   fs_at_call, calls, api_vars, main_vars>>

\* Line 167: the reply, as the terminal shows it after the prompt.
Typed(user_input) == [kind |-> "reply", text |-> user_input]

\* Mutant of Confirm: with conflicts, the general prompt follows the specific
\* one (if / if in place of if / elif).
Confirm_AsksAgain ==
    /\ pc = "confirm"
    /\ \E user_input \in Replies :
          /\ log' = IF conflicts # <<>>
                    THEN log \o <<Line("found", NoPath, NoPath,
                                       IF Len(conflicts) # 1 THEN "s" ELSE ""),
                                  Line("prompt", NoPath, NoPath,
                                       "Continue with skipping conflicts? (y/n): "),
                                  Typed(user_input),
                                  Line("prompt", NoPath, NoPath, "Proceed? (y/n): "),
                                  Typed(user_input)>>
                    ELSE log \o <<Line("prompt", NoPath, NoPath, "Proceed? (y/n): "),
                                  Typed(user_input)>>
          /\ pc' = IF Affirmative(user_input) THEN "wcheck" ELSE "exit_declined"
    /\ confirms' = IF conflicts # <<>> THEN confirms + 2 ELSE confirms + 1
    /\ UNCHANGED <<fs, platform, raised, rename_plan, conflict_dict, pos, renames,
                   fs_at_call, calls, api_vars, args, access, files, sorted_files, plan,
                   conflicts, effective_ops, backup, fs_at_start, env_changes>>

\* Lines 316-322: one prompt, worded after the conflicts; the reply decides.
Confirm ==
    /\ pc = "confirm"
    /\ \E user_input \in Replies :
          /\ log' = IF conflicts # <<>>
                    THEN log \o <<Line("found", NoPath, NoPath,
                                       IF Len(conflicts) # 1 THEN "s" ELSE ""),
                                  Line("prompt", NoPath, NoPath,
                                       "Continue with skipping conflicts? (y/n): "),
                                  Typed(user_input)>>
                    ELSE log \o <<Line("prompt", NoPath, NoPath, "Proceed? (y/n): "),
                                  Typed(user_input)>>
          /\ pc' = IF Affirmative(user_input) THEN "wcheck" ELSE "exit_declined"
    /\ confirms' = confirms + 1
    /\ UNCHANGED <<fs, platform, raised, rename_plan, conflict_dict, pos, renames,
                   fs_at_call, calls, api_vars, args, access, files, sorted_files, plan,
                   conflicts, effective_ops, backup, fs_at_start, env_changes>>

\* Lines 324-326.
WriteCheck ==
    /\ pc = "wcheck"
    /\ IF access = "nowrite"
       THEN /\ pc' = "exit_nowrite"
            /\ log' = Append(log, Line("error", NoPath, NoPath, "No permission to write"))
       ELSE /\ pc' = "filter"
            /\ UNCHANGED log
    /\ UNCHANGED <<fs, platform, raised, rename_plan, conflict_dict, pos, renames,
                   fs_at_call, calls, api_vars, main_vars>>

\* Mutant of EffectiveOps: nothing is filtered out.
EffectiveOps_All(pl, cs) == pl

\* Lines 328-329.
EffectiveOps(pl, cs) ==
    LET conflicted_pairs == {<<cs[i][1], cs[i][2]>> : i \in DOMAIN cs}
        Keep(e) == <<e[1], e[2]>> \notin conflicted_pairs
    IN  SelectSeq(pl, Keep)

\* Lines 328-335: with something left to rename, save_backup is called with
\* effective_ops as its rename_plan.
Filter ==
    /\ pc = "filter"
    /\ effective_ops' = EffectiveOps(plan, conflicts)
    /\ IF EffectiveOps(plan, conflicts) = <<>>
       THEN /\ pc' = "exit_nothing"
            /\ log' = Append(log, Line("info", NoPath, NoPath, "Nothing to rename"))
            /\ UNCHANGED rename_plan
       ELSE /\ pc' = "backup"
            /\ rename_plan' = EffectiveOps(plan, conflicts)
            /\ UNCHANGED log
    /\ UNCHANGED <<fs, platform, raised, conflict_dict, pos, renames,
                   fs_at_call, calls, api_vars, args, access, files, sorted_files, plan,
                   conflicts, confirms, backup, fs_at_start, env_changes>>

\* save_backup runs: called by main() (pc = "backup") or directly (pc = "save_backup").
InSaveBackup == pc \in {"backup", "save_backup"}

\* Lines 186-190: the backup file is created (or truncated) and open.
BackupOpen ==
    /\ InSaveBackup
    /\ backup.state = "none"
    /\ backup' = [state |-> "open", lines |-> <<>>, content |-> <<>>]
    /\ fs' = [q \in DOMAIN fs \cup {BackupPath(args.path)} |->
                IF q = BackupPath(args.path) THEN q ELSE fs[q]]
    /\ pos' = 1
    /\ UNCHANGED <<platform, raised, rename_plan, conflict_dict, log, renames,
                   fs_at_call, calls, pc, api_vars, args, access, files, sorted_files,
                   plan, conflicts, effective_ops, confirms, fs_at_start, env_changes>>

\* Lines 191-192, one iteration.
BackupWrite ==
    /\ InSaveBackup
    /\ backup.state = "open"
    /\ pos <= Len(rename_plan)
    /\ backup' = [backup EXCEPT
                      !.lines = Append(@, BackupLine(rename_plan[pos][1], rename_plan[pos][2])),
                      !.content = @ \o BackupLine(rename_plan[pos][1], rename_plan[pos][2])]
    /\ pos' = pos + 1
    /\ UNCHANGED <<fs, platform, raised, rename_plan, conflict_dict, log, renames,
                   fs_at_call, calls, pc, api_vars, args, access, files, sorted_files,
                   plan, conflicts, effective_ops, confirms, fs_at_start, env_changes>>

\* Line 190 (the with block ends: the file is closed), line 194, and, in
\* main(), line 337: execute_rename is called with effective_ops.
BackupClose ==
    /\ InSaveBackup
    /\ backup.state = "open"
    /\ pos > Len(rename_plan)
    /\ backup' = [backup EXCEPT !.state = "closed"]
    /\ rename_plan' = IF pc = "backup" THEN effective_ops ELSE rename_plan
    /\ pos' = 1
    /\ pc' = IF pc = "backup" THEN "execute" ELSE "saved"
    /\ UNCHANGED <<fs, platform, raised, conflict_dict, log, renames,
                   fs_at_call, calls, api_vars, args, access, files, sorted_files,
                   plan, conflicts, effective_ops, confirms, fs_at_start, env_changes>>

\* Another process creates or removes a file of the directory while main()
\* waits for the reply.
EnvChange ==
    /\ pc = "confirm"
    /\ env_changes < MaxEnv
    /\ \E p \in DOMAIN fs_at_start \cup {plan[i][2] : i \in DOMAIN plan} :
          fs' = IF p \in DOMAIN fs
                THEN [q \in DOMAIN fs \ {p} |-> fs[q]]
                ELSE [q \in DOMAIN fs \cup {p} |-> IF q = p THEN P("env", p.name) ELSE fs[q]]
    /\ env_changes' = env_changes + 1
    /\ UNCHANGED <<platform, raised, rename_plan, conflict_dict, pos, log, renames,
                   fs_at_call, calls, pc, api_vars, args, access, files, sorted_files,
                   plan, conflicts, effective_ops, confirms, backup, fs_at_start>>

----------------------------------------------------------------------------
(* Specification Spec: one run of main() *)

MainDir == "d"

\* The extension given on the command line.
MainExt == <<"t">>

\* Candidate files of the directory: three that match "*.t" (one a dot file)
\* and one that does not.
MainPaths ==
    {P(MainDir, <<"1", ".", "t">>), P(MainDir, <<"2", ".", "t">>),
     P(MainDir, <<".", "t">>), P(MainDir, <<"a", ".", "u">>)}

\* "{}" and "f" (no replacement field).
MainPatterns ==
    {[pre |-> <<>>, ph |-> TRUE, width |-> 0, post |-> <<>>],
     [pre |-> <<"f">>, ph |-> FALSE, width |-> 0, post |-> <<>>]}

Init ==
    /\ pc = "start"
    /\ platform \in {"posix", "nt"}
    /\ access \in {"missing", "noread", "nowrite", "rw"}
    /\ fs \in {FsOf(S) : S \in SUBSET MainPaths}
    /\ access = "missing" => fs = FsOf({})
    /\ fs_at_start = fs
    /\ args \in {[path |-> MainDir, pattern |-> pt, extension |-> MainExt, start |-> st] :
                    pt \in MainPatterns, st \in (0 - MaxNeg)..MaxStart}
    /\ files = <<>>
    /\ sorted_files = <<>>
    /\ plan = <<>>
    /\ conflicts = <<>>
    /\ effective_ops = <<>>
    /\ confirms = 0
    /\ backup = NoBackup
    /\ env_changes = 0
    /\ rename_plan = <<>>
    /\ ExecIdle
    /\ PureIdle

Next ==
    \/ Start \/ Find \/ Sort \/ Plan \/ Validate \/ Preview \/ EnvChange \/ Confirm
    \/ WriteCheck \/ Filter \/ BackupOpen \/ BackupWrite \/ BackupClose
    \/ ExecCall \/ ExecStep \/ ExecReturn

Spec == Init /\ [][Next]_vars

----------------------------------------------------------------------------
(* Claims about main() (Spec) *)

\* The plan has been built and validated (nothing changes the directory
\* before the prompt, so validation saw the filesystem main() started with).
Validated ==
    pc \in {"preview", "confirm", "wcheck", "filter", "backup", "execute", "done",
            "exit_declined", "exit_nowrite", "exit_nothing"}
    \/ (pc = "crashed" /\ plan # <<>>)

InConflict == MustReport(fs_at_start, plan)

BackupWritten == backup.state # "none" \/ Exists(fs, BackupPath(args.path))

\* C3: when discovery finds nothing, or every entry of the plan is in
\* conflict, the run ends without ever asking for confirmation and without
\* writing a backup file.
C3_EmptyResultNoPromptNoBackup ==
    /\ pc = "exit_nofiles" => (confirms = 0 /\ ~BackupWritten)
    /\ (Validated /\ InConflict = DOMAIN plan) => (confirms = 0 /\ ~BackupWritten)

HasLine(kind, i, msg) ==
    \E k \in DOMAIN log : log[k] = Line(kind, plan[i][1], plan[i][2], msg)

\* C4: in a run that reaches execution, every plan entry in conflict is shown
\* in the preview with the problem marker and its reason, and is reported as
\* skipped, with its reason, at execution time.
C4_ConflictsShownAndSkipped ==
    pc = "done" =>
        \A i \in InConflict :
            /\ HasLine("problem", i, ReasonFor(fs_at_start, plan, i))
            /\ HasLine("skipped", i, ReasonFor(fs_at_start, plan, i))

\* The plan entries not in conflict at validation, in plan order.
Intended ==
    LET G == DOMAIN plan \ InConflict
    IN  [k \in 1..Cardinality(G) |-> plan[Kth(G, k)]]

\* C5: no file is renamed before the backup file is written and closed; when
\* a pair is renamed the backup holds its line; the backup holds exactly the
\* plan entries not in conflict at validation, in plan order.
C5_BackupBeforeRename ==
    /\ [](backup.state = "closed" =>
            backup.lines = [k \in DOMAIN Intended |->
                               BackupLine(Intended[k][1], Intended[k][2])])
    /\ [][renames' # renames =>
            /\ backup.state = "closed"
            /\ backup' = backup
            /\ LET r == renames'[Len(renames')]
               IN  \E k \in DOMAIN backup.lines :
                       backup.lines[k] = BackupLine(r.old, r.new)]_vars

\* C5 witness: a run that renamed a file, with a conflicting entry left out
\* of a backup of two lines.
C5_Witness ==
    /\ pc = "done"
    /\ renames # <<>>
    /\ InConflict # {}
    /\ Len(backup.lines) = 2

\* C8: the plan is the same whatever order discovery lists the files in: for
\* the directory, pattern, extension and start index of the run, every
\* listing order leads sort and buildPlan to the plan of this run (or to the
\* failure of this run).
C8_PlanDeterministic ==
    (sorted_files # <<>> /\ pc # "plan") =>
        \A q \in Orders(FoundSet(fs_at_start, args.path, args.extension)) :
            LET r == generate_rename_plan(sort_files(q), args.pattern, args.start)
            IN  IF pc = "crashed" /\ plan = <<>>
                THEN ~r.ok /\ r.val = raised
                ELSE r.ok /\ r.val = plan

\* C8 witness: three files listed in an order that is not the sorted one,
\* and a plan built from them.
C8_Witness ==
    /\ Len(plan) = 3
    /\ files # sorted_files
    /\ pc = "validate"

\* The positions of execute's plan that are in conflict in the filesystem
\* execute was called in.
StaleAtCall == MustReport(fs_at_call, rename_plan)

\* C12: in a run of main(), execute is given exactly the entries that were
\* conflict-free at the planning-time validation, and decides from the
\* filesystem at its call: at an entry whose source is missing or whose
\* destination exists in that filesystem, its step prints the skipped notice
\* with the reason and renames nothing; when execute has returned, every
\* such entry has its notice and no rename.
C12_RevalidatesAtCall ==
    /\ [](pc \in {"execute", "done"} => rename_plan = Intended)
    /\ [](pc = "done" =>
            \A i \in StaleAtCall :
                /\ \E k \in DOMAIN log :
                      log[k] = [kind |-> "skipped", old |-> rename_plan[i][1],
                                new |-> rename_plan[i][2],
                                msg |-> ReasonFor(fs_at_call, rename_plan, i)]
                /\ \A k \in DOMAIN renames :
                      <<renames[k].old, renames[k].new>> # rename_plan[i])
    /\ [][(pc = "execute" /\ api = "exec" /\ pos \in StaleAtCall) =>
            /\ log' = Append(log, [kind |-> "skipped", old |-> rename_plan[pos][1],
                                   new |-> rename_plan[pos][2],
                                   msg |-> ReasonFor(fs_at_call, rename_plan, pos)])
            /\ fs' = fs
            /\ renames' = renames
            /\ raised' = raised
            /\ pos' = pos + 1]_vars

\* C12 witness: the directory changed while main() waited for the reply;
\* execute skipped an entry that was conflict-free before the change and
\* renamed another.
C12_Witness ==
    /\ pc = "done"
    /\ env_changes = 1
    /\ renames # <<>>
    /\ \E i \in StaleAtCall :
          /\ i \notin MustReport(fs_at_start, rename_plan)
          /\ \E k \in DOMAIN log : /\ log[k].kind = "skipped"
                                    /\ log[k].old = rename_plan[i][1]

\* main() has ended: returned, exited or died of an exception.
Terminal ==
    pc \in {"done", "crashed", "exit_nopath", "exit_noread", "exit_nofiles",
            "exit_declined", "exit_nowrite", "exit_nothing"}

\* The run ended before its decision point: the path was missing or
\* unreadable, no file matched, or the start index was refused.
EndedBeforePrompt ==
    \/ pc \in {"exit_nopath", "exit_noread", "exit_nofiles"}
    \/ pc = "crashed" /\ raised = "ValueError"

Prompts == {k \in DOMAIN log : log[k].kind = "prompt"}

\* The replies of Replies that are "y" or "yes" once trimmed and lowercased.
YesReplies == {<<"y">>, <<"Y">>, <<"y", "e", "s">>, <<" ", "Y", "e", "s", " ">>}

\* The user was asked and the answer was not affirmative.
Declined ==
    \E k \in DOMAIN log : log[k].kind = "reply" /\ log[k].text \notin YesReplies

\* After a declined prompt: the run has ended, with no backup and no rename,
\* and the directory is as it was before the run.
DeclinedLeavesAll ==
    Declined =>
        /\ pc = "exit_declined"
        /\ backup = NoBackup
        /\ ~BackupWritten
        /\ renames = <<>>
        /\ env_changes = 0 => fs = fs_at_start

\* C13 as stated: in every run of main(), confirmation is requested exactly
\* once, and after an answer that is not affirmative the run has ended with
\* no backup file, no rename and the directory as it was.
C13_ConfirmOnceEveryRun ==
    /\ Terminal => (confirms = 1 /\ Cardinality(Prompts) = 1)
    /\ DeclinedLeavesAll

\* C13 amended: confirmation is requested at most once in a run: exactly
\* once in every run that gets to its decision point (a plan was built), and
\* never in a run that ends before it; the run ends at the decline exit
\* exactly when the answer is not affirmative, and then no backup file was
\* written, no file was renamed, no step of the run has touched the
\* directory, and no step follows.
C13_ConfirmOncePerDecision ==
    /\ [](confirms <= 1 /\ Cardinality(Prompts) = confirms)
    /\ [](Terminal => (confirms = IF EndedBeforePrompt THEN 0 ELSE 1))
    /\ [](pc = "exit_declined" <=> Declined)
    /\ [](DeclinedLeavesAll)
    /\ [][(pc' = "exit_declined" \/ confirms' = 0) /\ env_changes' = env_changes
            => fs' = fs /\ backup' = backup /\ renames' = renames]_vars
    /\ [][pc # "exit_declined"]_vars

\* C13 witness: a run with conflicts in its plan, asked once, answered "ye",
\* ended at the decline exit.
C13_Witness ==
    /\ pc = "exit_declined"
    /\ confirms = 1
    /\ conflicts # <<>>
    /\ \E k \in DOMAIN log : log[k] = [kind |-> "reply", text |-> <<"y", "e">>]

----------------------------------------------------------------------------
(* Specification SpecBackup: save_backup(rename_plan, backup_dir) called   *)
(* directly, on every list of up to MaxPlan entries, in a directory that   *)
(* may already hold a file of the backup's name.  args.path stands for     *)
(* backup_dir.                                                             *)

BackupDirs == {"d", "e"}

\* What an earlier backup of the same name holds.
Stale == <<"o", "l", "d", "\n">>

InitBackup ==
    /\ pc = "save_backup"
    /\ platform = "posix"
    /\ rename_plan \in Plans(ExecPaths, MaxPlan)
    /\ \E dir \in BackupDirs :
          /\ args = [NoArgs EXCEPT !.path = dir]
          /\ \/ fs = FsOf({}) /\ backup = NoBackup
             \/ fs = FsOf({BackupPath(dir)}) /\ backup = [NoBackup EXCEPT !.content = Stale]
    /\ access = "rw"
    /\ files = <<>>
    /\ sorted_files = <<>>
    /\ plan = <<>>
    /\ conflicts = <<>>
    /\ effective_ops = <<>>
    /\ confirms = 0
    /\ fs_at_start = fs
    /\ env_changes = 0
    /\ ExecIdle
    /\ PureIdle

NextBackup == BackupOpen \/ BackupWrite \/ BackupClose

SpecBackup == InitBackup /\ [][NextBackup]_vars

\* The text of a backup of the given entries: for each entry, in order, its
\* source, " -> ", its destination and a newline.
RECURSIVE ExpectedContent(_)
ExpectedContent(entries) ==
    IF entries = <<>> THEN <<>>
    ELSE PathStr(Head(entries)[1]) \o <<" ", "-", ">", " ">> \o PathStr(Head(entries)[2])
         \o <<"\n">> \o ExpectedContent(Tail(entries))

\* C11: writeBackup(entries, dir) leaves a file in dir whose content is
\* exactly the lines "<source> -> <destination>" of the entries, in entry
\* order, each followed by a newline, with nothing before or after; for no
\* entries the file exists and is empty.
C11_BackupContent ==
    pc = "saved" =>
        /\ backup.state = "closed"
        /\ \E p \in DOMAIN fs : p.parent = args.path /\ p = BackupPath(args.path)
        /\ backup.content = ExpectedContent(rename_plan)
        /\ rename_plan = <<>> => backup.content = <<>>

\* C11 witness: a backup of two entries written over an earlier file of the
\* same name.
C11_Witness ==
    /\ pc = "saved"
    /\ Len(rename_plan) = 2
    /\ Exists(fs_at_start, BackupPath(args.path))
    /\ rename_plan[1] # rename_plan[2]

====
